---------------------------- MODULE Spec2Model ----------------------------
(***************************************************************************)
(* NILM event detector (dsp_esp32/main_NILM_Event_Detector.c) and the      *)
(* filter / classifier library (dsp_esp32/nilm_filters.[ch]).              *)
(*                                                                         *)
(* Two FreeRTOS tasks: cbTask (decimator, producer) and nilmTask           *)
(* (power -> high-pass -> ring buffer -> baseline -> detect_events).       *)
(*                                                                         *)
(* Arithmetic.  The C code computes in single-precision float.  The model  *)
(* computes the same expressions in exact rational arithmetic (records     *)
(* [num, den] in lowest terms), so that a wrong divisor or a wrong operand *)
(* is visible; float rounding is not modelled.                             *)
(*                                                                         *)
(* Scaling.  DECIMATION_FACTOR (2000 in the source), POWER_BUFFER_SIZE     *)
(* (100) and the status-log interval (100) are scaled down to small values *)
(* so that the state space is finite and small; the code is generic in     *)
(* them.  EVENT_THRESHOLD and DEBOUNCE_TIME_MS keep their source values.   *)
(***************************************************************************)
EXTENDS Integers, Sequences, FiniteSets, TLC

(***************************************************************************)
(* Program constants                                                       *)
(***************************************************************************)
\* #define DECIMATION_FACTOR 2000 (scaled)
DECIMATION_FACTOR == 4
\* #define POWER_BUFFER_SIZE 100 (scaled)
POWER_BUFFER_SIZE == 3
\* if (++log_counter >= 100) (scaled, kept equal to POWER_BUFFER_SIZE as in the source)
LOG_INTERVAL == 3
\* #define EVENT_THRESHOLD 50.0f
EVENT_THRESHOLD == 50
\* #define DEBOUNCE_TIME_MS 2000
DEBOUNCE_TIME_MS == 2000
\* #define SAMPLE_RATE_HZ 10.0f
SAMPLE_RATE_HZ == 10
\* adc_channel_t channels[2] = {ADC1_CHANNEL_4, ADC1_CHANNEL_5}
ADC1_CHANNEL_4 == 4
ADC1_CHANNEL_5 == 5
\* 12-bit conversion result, full scale (data * 3.3f / 4095.0f)
ADC_FULL_SCALE == 4095

(***************************************************************************)
(* Bounds of the model                                                     *)
(***************************************************************************)
\* results delivered by one adc_continuous_read
MaxFrame == 2
\* VoltagePairs cbTask emits before the input stream stops
MaxEmit == 3
\* cap of a task's pending notification count
MaxNotify == 1
\* the millisecond clock is not read beyond this value
MaxTime == 6000
\* iterations of the nilmTask body in the sequential pipeline specification
MaxPush == 5
\* calls of detect_events followed across the wrap-around of the clock
MaxCalls == 4
\* PowerSamples run through the pipeline when the status log is followed
MaxLogged == 7
\* samples given to a biquad section
MaxSteps == 3
\* largest power magnitude given to the device classifier (W)
MaxPower == 4100
\* largest constant load fed to the high-pass cascade (W) and number of
\* samples of it
MaxLoad == 20
MaxSamples == 8

\* interval between two low-rate samples, and the samples of a 1 s warm-up
SamplePeriodMs == 1000 \div SAMPLE_RATE_HZ
WarmUpSamples == SAMPLE_RATE_HZ

\* the two tasks together: readings, cascade outputs, clock steps
DataValues == {ADC_FULL_SCALE}
FilteredValues == {EVENT_THRESHOLD + 10}
TickSteps == {0, DEBOUNCE_TIME_MS}

(***************************************************************************)
(* Exact rationals standing for C float                                    *)
(***************************************************************************)
RECURSIVE GCD(_, _)
GCD(a, b) ==
    IF b = 0 THEN a
    ELSE \* the remainder is bound as a value, computed once per level
         CHOOSE g \in {GCD(b, r) : r \in {a % b}} : TRUE

AbsInt(n) == IF n < 0 THEN 0 - n ELSE n

\* n/d in lowest terms, d > 0 (the operands are bound as values, so that an
\* operand given as an expression is computed once)
Reduced(n, d, g) == [num |-> n \div g, den |-> d \div g]
Rat(n, d) ==
    CHOOSE r \in {Reduced(x, y, g) : <<x, y, g>> \in
                    {<<x, y, GCD(AbsInt(x), y)>> : x \in {n}, y \in {d}}} : TRUE

RatInt(n) == [num |-> n, den |-> 1]
RatZero == RatInt(0)
RatAdd(a, b) ==
    CHOOSE r \in {Rat(x.num * y.den + y.num * x.den, x.den * y.den) :
                    x \in {a}, y \in {b}} : TRUE
RatMul(a, b) == Rat(a.num * b.num, a.den * b.den)
RatDivInt(a, k) == Rat(a.num, a.den * k)
\* fabsf
RatAbs(a) == [num |-> AbsInt(a.num), den |-> a.den]
\* a > k for an integer k
RatGtInt(a, k) == a.num > k * a.den
RatGeInt(a, k) == a.num >= k * a.den
RatLeInt(a, k) == a.num <= k * a.den

(***************************************************************************)
(* uint32_t as two 16-bit halves (TLC integers are 32-bit signed)          *)
(***************************************************************************)
Half == 256 * 256
U32(h, l) == [hi |-> h, lo |-> l]
U32Zero == U32(0, 0)
\* a + n modulo 2^32, for 0 <= n < 2^16
U32AddSmall(a, n) ==
    U32((a.hi + ((a.lo + n) \div Half)) % Half, (a.lo + n) % Half)
\* a + b modulo 2^32
U32Add(a, b) ==
    U32((a.hi + b.hi + ((a.lo + b.lo) \div Half)) % Half, (a.lo + b.lo) % Half)
\* a + b < 2^32
U32AddFits(a, b) == a.hi + b.hi + ((a.lo + b.lo) \div Half) < Half
\* a - b modulo 2^32
U32Sub(a, b) ==
    LET borrow == IF a.lo >= b.lo THEN 0 ELSE 1
    IN  U32((a.hi - b.hi - borrow) % Half, (a.lo - b.lo) % Half)
\* a < n for 0 <= n < 2^16
U32LtSmall(a, n) == a.hi = 0 /\ a.lo < n

(***************************************************************************)
(* State                                                                   *)
(***************************************************************************)
VARIABLES
    \* main_NILM_Event_Detector.c globals shared by the two tasks
    voltage,              \* float voltage[2]
    New_ADC_data,         \* bool New_ADC_data
    cb_notify,            \* notification value of cb_task (given by the ADC ISR)
    nilm_notify,          \* notification value of nilm_task (given by cbTask)
    \* cbTask
    cb_pc,                \* position of cbTask in its loop
    rx_left,              \* results of the current frame not yet processed (rxLen - i)
    voltage_sum,          \* static float voltage_sum[2]
    decimation_counter,   \* static uint32_t decimation_counter
    ret,                  \* esp_err_t ret of the last adc_continuous_read
    \* nilmTask
    nilm_pc,              \* position of nilmTask in its loop
    arg,                  \* voltage[0], voltage[1] as read for calculate_power
    arg_read,             \* which of the two arguments have been read
    power_buffer,         \* static float power_buffer[POWER_BUFFER_SIZE]
    power_index,          \* static uint32_t power_index
    power_buffer_full,    \* static bool power_buffer_full
    baseline_power,       \* static float baseline_power
    last_event_time,      \* static uint32_t last_event_time
    log_counter,          \* static uint32_t log_counter (nilmTask)
    \* one biquad section in its two implementations, on the same coefficients
    filter_coeffs,        \* one row of filter_coeffs: [b0, b1, b2, a0, a1, a2]
    filter_states,        \* biquad_state_t of apply_biquad: x[3], y[3]
    section,              \* biquad_section_t of apply_biquad_section
    bq_out,               \* the last output of each implementation
    bq_n,                 \* samples filtered so far
    \* the high-pass cascade of apply_highpass_filter on a constant load
    hp_load,              \* the constant PowerSample fed to the cascade (mW)
    hp_states,            \* static biquad_state_t filter_states[3] (mW)
    hp_out,               \* the last output of the cascade (mW)
    hp_n,                 \* samples filtered so far
    \* classify_device_by_power / get_device_name called on their own
    power_arg,            \* the argument of classify_device_by_power
    device,               \* the device_type_t returned and its name
    \* environment
    pattern_pos,          \* position of the ADC in its two-channel conversion pattern
    clock,                \* xTaskGetTickCount() * portTICK_PERIOD_MS, uint32_t
    \* outputs (ESP_LOGI lines)
    event_count,          \* number of "EVENT DETECTED" lines printed
    last_event,           \* the last "EVENT DETECTED" line
    status,               \* number of periodic status lines and the last one
    \* history (observation only; never read by the program's actions)
    emitted,              \* number of VoltagePairs emitted by cbTask
    period,               \* per-channel sample count and sum of the running period
    last_period,          \* the same, frozen when the last emission was triggered
    voltage_id,           \* emission that wrote voltage[c]
    arg_id,               \* emission whose value was read into arg[c]
    runs,                 \* pipeline runs: <<id of arg[0], id of arg[1]>>
    overrun,              \* an emission began before the previous pair was consumed
    pushed,               \* PowerSamples pushed into the ring buffer, in order
    baseline_written,     \* baseline_power has been assigned
    call,                 \* the last detect_events call: inputs and outcome
    prev_cross,           \* the threshold-crossing call before the last call
    first_cross,          \* the first threshold-crossing call
    warmup,               \* leading calls at 0 W with a zero filter output
    last_result,          \* the last ADC result cbTask processed and its effect
    signals,              \* times cbTask set New_ADC_data / notified nilm_task
    counted,              \* increments of decimation_counter so far
    since_event           \* true time (ms, not wrapped) since the last accepted event

shared_vars == <<voltage, New_ADC_data, cb_notify, nilm_notify>>
cb_vars == <<cb_pc, rx_left, voltage_sum, decimation_counter, ret>>
nilm_ctl_vars == <<nilm_pc, arg, arg_read>>
pipe_vars == <<power_buffer, power_index, power_buffer_full, baseline_power,
               last_event_time, log_counter, event_count, last_event,
               status>>
cb_hist_vars == <<emitted, period, last_period, voltage_id>>
detect_hist_vars == <<call, prev_cross, first_cross, warmup>>
nilm_hist_vars == <<arg_id, runs, pushed, baseline_written, detect_hist_vars>>
filter_vars == <<filter_coeffs, filter_states, section, bq_out, bq_n>>
cascade_vars == <<hp_load, hp_states, hp_out, hp_n>>
classify_vars == <<power_arg, device>>
wrap_vars == <<since_event>>
pure_vars == <<cascade_vars, classify_vars, wrap_vars>>
sig_hist_vars == <<last_result, signals, counted>>
vars == <<shared_vars, cb_vars, nilm_ctl_vars, pipe_vars, clock, pattern_pos,
          filter_vars, pure_vars, sig_hist_vars,
          cb_hist_vars, nilm_hist_vars, overrun>>

NoCall == [n |-> 0]
NoLine == [event_type |-> "none"]
NoResult == [channel |-> 0 - 1]
NoDevice == [called |-> FALSE]

\* memset(filter_states, 0, sizeof(filter_states))
ZeroState == [x |-> [i \in 0..2 |-> 0], y |-> [i \in 0..2 |-> 0]]

\* a section as init_filter_sections fills it from a row [b0, b1, b2, a1, a2]
InitSection(b0, b1, b2, a1, a2) ==
    [b0 |-> b0, b1 |-> b1, b2 |-> b2, a1 |-> a1, a2 |-> a2, w1 |-> 0, w2 |-> 0]

\* section 1 of filter_coeffs, rounded to integers
RoundedCoeffs == <<1, 0 - 2, 1, 1, 0 - 2, 1>>
RowOf(t) == [i \in 0..5 |-> t[i + 1]]

InitFilter(row) ==
    /\ filter_coeffs = row
    /\ filter_states = ZeroState
    /\ section = InitSection(row[0], row[1], row[2], row[4], row[5])
    /\ bq_out = [main |-> 0, lib |-> 0]
    /\ bq_n = 0

InitRest ==
    /\ voltage = [c \in 0..1 |-> RatZero]
    /\ New_ADC_data = FALSE
    /\ cb_notify = 0
    /\ nilm_notify = 0
    /\ cb_pc = "take"
    /\ rx_left = 0
    /\ voltage_sum = [c \in 0..1 |-> RatZero]
    /\ decimation_counter = 0
    /\ ret = "unset"
    /\ nilm_pc = "take"
    /\ arg = [c \in 0..1 |-> RatZero]
    /\ arg_read = {}
    /\ power_buffer = [i \in 0..(POWER_BUFFER_SIZE - 1) |-> RatZero]
    /\ power_index = 0
    /\ power_buffer_full = FALSE
    /\ baseline_power = RatZero
    /\ last_event_time = U32Zero
    /\ log_counter = 0
    /\ clock = U32Zero
    /\ pattern_pos = 0
    /\ event_count = 0
    /\ last_event = NoLine
    /\ status = [n |-> 0]
    /\ emitted = 0
    /\ period = [n |-> [c \in 0..1 |-> 0], sum |-> [c \in 0..1 |-> RatZero]]
    /\ last_period = [n |-> [c \in 0..1 |-> 0], sum |-> [c \in 0..1 |-> RatZero]]
    /\ voltage_id = [c \in 0..1 |-> 0]
    /\ arg_id = [c \in 0..1 |-> 0]
    /\ runs = <<>>
    /\ overrun = FALSE
    /\ pushed = <<>>
    /\ baseline_written = FALSE
    /\ call = NoCall
    /\ prev_cross = NoCall
    /\ first_cross = NoCall
    /\ warmup = [n |-> 0, open |-> TRUE]
    /\ last_result = NoResult
    /\ signals = [flag |-> 0, give |-> 0]
    /\ counted = 0
    /\ since_event = [n |-> 0, elapsed |-> U32Zero, seen |-> U32Zero,
                      accepted |-> FALSE, had_event |-> FALSE]

\* nothing has been fed to the cascade, whose states app_main zeroes
InitCascade(load) ==
    /\ hp_load = load
    /\ hp_states = [i \in 0..2 |-> ZeroState]
    /\ hp_out = 0
    /\ hp_n = 0

\* classify_device_by_power has not been called
InitClassify(p) ==
    /\ power_arg = p
    /\ device = NoDevice

Init ==
    /\ InitRest
    /\ InitFilter(RowOf(RoundedCoeffs))
    /\ InitCascade(0)
    /\ InitClassify(RatZero)

(***************************************************************************)
(* cbTask: decimator (producer)                                            *)
(***************************************************************************)
\* data * 3.3f / 4095.0f, in volts
ConvertSample(data) == Rat(data * 33, 10 * ADC_FULL_SCALE)

\* index of voltage_sum a result of this channel is added to; 2 = neither
ChannelIndex(channel) ==
    IF channel = ADC1_CHANNEL_4 THEN 0
    ELSE IF channel = ADC1_CHANNEL_5 THEN 1
    ELSE 2

\* voltage_sum after the if / else-if on the channel tag
Accumulate(sum, channel, data) ==
    IF ChannelIndex(channel) \in 0..1
    THEN [sum EXCEPT ![ChannelIndex(channel)] = RatAdd(@, ConvertSample(data))]
    ELSE sum

\* if (decimation_counter >= DECIMATION_FACTOR)
DecimationDue_Late(counter) == counter > DECIMATION_FACTOR
DecimationDue_Early(counter) == counter >= DECIMATION_FACTOR - 1
DecimationDue(counter) == counter >= DECIMATION_FACTOR

\* voltage_sum[c] / DECIMATION_FACTOR
DecimatedVoltage(sum) == RatDivInt(sum, DECIMATION_FACTOR)

\* the ADC conversion-done ISR: vTaskNotifyGiveFromISR(cb_task)
Callback ==
    /\ cb_notify < MaxNotify
    /\ emitted < MaxEmit
    /\ cb_notify' = cb_notify + 1
    /\ UNCHANGED <<pure_vars, sig_hist_vars, filter_vars, voltage, New_ADC_data, nilm_notify, cb_vars, nilm_ctl_vars,
                   pipe_vars, clock, pattern_pos, cb_hist_vars, nilm_hist_vars, overrun>>

\* ulTaskNotifyTake(pdTRUE, portMAX_DELAY) returns: the value is cleared
CbTake ==
    /\ cb_pc = "take"
    /\ cb_notify > 0
    /\ cb_notify' = 0
    /\ cb_pc' = "read"
    /\ UNCHANGED <<ret, pure_vars, sig_hist_vars, filter_vars, voltage, New_ADC_data, nilm_notify, rx_left, voltage_sum,
                   decimation_counter, nilm_ctl_vars, pipe_vars, clock, pattern_pos,
                   cb_hist_vars, nilm_hist_vars, overrun>>

CbReadFail_Resets ==
    /\ cb_pc = "read"
    /\ ret' = "ESP_FAIL"
    /\ cb_pc' = "take"
    /\ voltage_sum' = [c \in 0..1 |-> RatZero]
    /\ decimation_counter' = 0
    /\ UNCHANGED <<pure_vars, sig_hist_vars, filter_vars, shared_vars, rx_left,
                   nilm_ctl_vars, pipe_vars, clock, pattern_pos, cb_hist_vars,
                   nilm_hist_vars, overrun>>

\* adc_continuous_read returns an error: nothing is processed
CbReadFail ==
    /\ cb_pc = "read"
    /\ ret' = "ESP_FAIL"
    /\ cb_pc' = "take"
    /\ UNCHANGED <<pure_vars, sig_hist_vars, filter_vars, shared_vars, rx_left, voltage_sum, decimation_counter,
                   nilm_ctl_vars, pipe_vars, clock, pattern_pos, cb_hist_vars,
                   nilm_hist_vars, overrun>>

\* adc_continuous_read returns ESP_OK with rxLen results
CbReadOkUpTo(max_len) ==
    /\ cb_pc = "read"
    /\ \E len \in 0..max_len : rx_left' = len
    /\ ret' = "ESP_OK"
    /\ cb_pc' = "loop"
    /\ UNCHANGED <<pure_vars, sig_hist_vars, filter_vars, shared_vars, voltage_sum, decimation_counter,
                   nilm_ctl_vars, pipe_vars, clock, pattern_pos, cb_hist_vars,
                   nilm_hist_vars, overrun>>

\* the for loop ends (i >= rxLen)
CbLoopExit ==
    /\ cb_pc = "loop"
    /\ rx_left = 0
    /\ cb_pc' = "take"
    /\ UNCHANGED <<ret, pure_vars, sig_hist_vars, filter_vars, shared_vars, rx_left, voltage_sum, decimation_counter,
                   nilm_ctl_vars, pipe_vars, clock, pattern_pos, cb_hist_vars,
                   nilm_hist_vars, overrun>>

\* channel the ADC converts at this position of the pattern configured by
\* configure_adc(channels, 2)
PatternChannel(pos) == IF pos = 0 THEN ADC1_CHANNEL_4 ELSE ADC1_CHANNEL_5

\* one loop iteration up to the decimation test, for a result drawn from
\* the given channel tags and readings
CbSampleFrom(channels, values) ==
    /\ cb_pc = "loop"
    /\ rx_left > 0
    /\ \E channel \in channels, data \in values :
        LET c == ChannelIndex(channel)
            p == IF c \in 0..1
                 THEN [n |-> [period.n EXCEPT ![c] = @ + 1],
                       sum |-> [period.sum EXCEPT
                                   ![c] = RatAdd(@, ConvertSample(data))]]
                 ELSE period
        IN  /\ voltage_sum' = Accumulate(voltage_sum, channel, data)
            /\ decimation_counter' = decimation_counter + 1
            /\ counted' = counted + 1
            /\ last_result' =
                  [channel |-> channel,
                   sums_kept |-> voltage_sum' = voltage_sum,
                   counter_kept |-> decimation_counter' = decimation_counter,
                   emits |-> DecimationDue(decimation_counter')]
            /\ IF DecimationDue(decimation_counter + 1)
               THEN /\ cb_pc' = "emit_v0"
                    /\ rx_left' = rx_left
                    /\ last_period' = p
                    /\ period' = [n |-> [k \in 0..1 |-> 0],
                                  sum |-> [k \in 0..1 |-> RatZero]]
               ELSE /\ cb_pc' = "loop"
                    /\ rx_left' = rx_left - 1
                    /\ last_period' = last_period
                    /\ period' = p
    /\ UNCHANGED <<ret, pure_vars, signals, filter_vars, shared_vars, nilm_ctl_vars, pipe_vars, clock, emitted,
                   voltage_id, nilm_hist_vars, overrun>>

\* the previous pair has been emitted but nilmTask has not read both of its values
Unconsumed ==
    /\ emitted > 0
    /\ ~(\E i \in 1..Len(runs) : runs[i] = <<emitted, emitted>>)

\* voltage[0] = voltage_sum[0] / DECIMATION_FACTOR
CbEmitV0 ==
    /\ cb_pc = "emit_v0"
    /\ voltage' = [voltage EXCEPT ![0] = DecimatedVoltage(voltage_sum[0])]
    /\ voltage_id' = [voltage_id EXCEPT ![0] = emitted + 1]
    /\ overrun' = (overrun \/ Unconsumed)
    /\ cb_pc' = "emit_v1"
    /\ UNCHANGED <<ret, pure_vars, sig_hist_vars, filter_vars, New_ADC_data, cb_notify, nilm_notify, rx_left, voltage_sum,
                   decimation_counter, nilm_ctl_vars, pipe_vars, clock, pattern_pos,
                   emitted, period, last_period, nilm_hist_vars>>

\* voltage[1] = voltage_sum[1] / DECIMATION_FACTOR; reset of the accumulators
CbEmitV1 ==
    /\ cb_pc = "emit_v1"
    /\ voltage' = [voltage EXCEPT ![1] = DecimatedVoltage(voltage_sum[1])]
    /\ voltage_id' = [voltage_id EXCEPT ![1] = emitted + 1]
    /\ voltage_sum' = [c \in 0..1 |-> RatZero]
    /\ decimation_counter' = 0
    /\ emitted' = emitted + 1
    /\ cb_pc' = "set_flag"
    /\ UNCHANGED <<ret, pure_vars, sig_hist_vars, filter_vars, New_ADC_data, cb_notify, nilm_notify, rx_left,
                   nilm_ctl_vars, pipe_vars, clock, pattern_pos, period, last_period,
                   nilm_hist_vars, overrun>>

\* New_ADC_data = pdTRUE
CbSetFlag ==
    /\ cb_pc = "set_flag"
    /\ New_ADC_data' = TRUE
    /\ signals' = [signals EXCEPT !.flag = @ + 1]
    /\ cb_pc' = "give"
    /\ UNCHANGED <<ret, pure_vars, last_result, counted, filter_vars, voltage, cb_notify, nilm_notify, rx_left, voltage_sum,
                   decimation_counter, nilm_ctl_vars, pipe_vars, clock, pattern_pos,
                   cb_hist_vars, nilm_hist_vars, overrun>>

\* a task's notification value after a give (the count is capped: a take
\* with pdTRUE clears it whatever it is)
NotifyGive_Lost(value) == value
NotifyGive(value) == IF value < MaxNotify THEN value + 1 ELSE value

\* xTaskNotifyGive(nilm_task), then the loop's i += SOC_ADC_DIGI_RESULT_BYTES
CbGive ==
    /\ cb_pc = "give"
    /\ nilm_notify' = NotifyGive(nilm_notify)
    /\ signals' = [signals EXCEPT !.give = @ + 1]
    /\ rx_left' = rx_left - 1
    /\ cb_pc' = "loop"
    /\ UNCHANGED <<ret, pure_vars, last_result, counted, filter_vars, voltage, New_ADC_data, cb_notify, voltage_sum,
                   decimation_counter, nilm_ctl_vars, pipe_vars, clock, pattern_pos,
                   cb_hist_vars, nilm_hist_vars, overrun>>

(***************************************************************************)
(* nilmTask pipeline: power, ring buffer, baseline, event detection        *)
(***************************************************************************)
\* fabsf(v1 * v2 * 100.0f)
calculate_power(v1, v2) == RatAbs(RatMul(RatMul(v1, v2), RatInt(100)))

\* power_buffer[power_index] = current_power
StoreSample(buf, idx, sample) == [buf EXCEPT ![idx] = sample]

\* power_index = (power_index + 1) % POWER_BUFFER_SIZE
NextIndex(idx) == (idx + 1) % POWER_BUFFER_SIZE

\* if (power_index == 0) power_buffer_full = true
FullAfterPush_NoLatch(full, new_idx) == new_idx = 0
FullAfterPush(full, new_idx) == full \/ new_idx = 0

\* for (i = 0; i < POWER_BUFFER_SIZE; i++) sum += power_buffer[i], over slots 0..n-1
RECURSIVE SumBuffer(_, _)
SumBuffer(buf, n) ==
    IF n = 0 THEN RatZero ELSE RatAdd(SumBuffer(buf, n - 1), buf[n - 1])

\* baseline_power = sum / POWER_BUFFER_SIZE
Baseline_OffByOne(buf) ==
    RatDivInt(SumBuffer(buf, POWER_BUFFER_SIZE - 1), POWER_BUFFER_SIZE)
Baseline(buf) == RatDivInt(SumBuffer(buf, POWER_BUFFER_SIZE), POWER_BUFFER_SIZE)

\* if (current_time - last_event_time < DEBOUNCE_TIME_MS) return
Debounced_Reversed(current_time, last) ==
    U32LtSmall(U32Sub(last, current_time), DEBOUNCE_TIME_MS)
Debounced_Unwrapped(current_time, last) ==
    LET lo == last.lo + DEBOUNCE_TIME_MS
        hi == last.hi + (lo \div Half)
    IN  \/ current_time.hi < hi
        \/ current_time.hi = hi /\ current_time.lo < lo % Half
Debounced(current_time, last) ==
    U32LtSmall(U32Sub(current_time, last), DEBOUNCE_TIME_MS)

\* if (power_buffer_full) guarding the baseline computation
BaselineDue(full) == full

\* last_event_time = current_time, executed only in the threshold branch
NextEventTime_Always(fire, current_time, last) == current_time
NextEventTime(fire, current_time, last) == IF fire THEN current_time ELSE last

\* if (fabsf(filtered_power) > EVENT_THRESHOLD)
Significant_Inclusive(filtered_power) == AbsInt(filtered_power) >= EVENT_THRESHOLD
Significant(filtered_power) == AbsInt(filtered_power) > EVENT_THRESHOLD

\* event_type
EventType(filtered_power) == IF filtered_power > 0 THEN "ON" ELSE "OFF"

DeviceType_BothDirections(current_power, filtered_power) ==
    IF RatGtInt(current_power, 2000) THEN "heating"
    ELSE IF RatGtInt(current_power, 500) THEN "appliance"
    ELSE IF RatGtInt(current_power, 100) THEN "lighting"
    ELSE "small_load"

\* device_type: the inline power thresholds of the ON branch
DeviceType_Inclusive(current_power, filtered_power) ==
    IF filtered_power > 0
    THEN IF RatGeInt(current_power, 2000) THEN "heating"
         ELSE IF RatGeInt(current_power, 500) THEN "appliance"
         ELSE IF RatGeInt(current_power, 100) THEN "lighting"
         ELSE "small_load"
    ELSE "unknown"
DeviceType(current_power, filtered_power) ==
    IF filtered_power > 0
    THEN IF RatGtInt(current_power, 2000) THEN "heating"
         ELSE IF RatGtInt(current_power, 500) THEN "appliance"
         ELSE IF RatGtInt(current_power, 100) THEN "lighting"
         ELSE "small_load"
    ELSE "unknown"

\* xTaskGetTickCount() * portTICK_PERIOD_MS: the clock has advanced by
\* elapsed ms since it was last read
TickCountMs(elapsed) == U32AddSmall(clock, elapsed)

\* time that can have passed since the clock was last read
Elapsed(steps) == {d \in steps : clock.hi = 0 /\ clock.lo + d <= MaxTime}

\* static void detect_events(float current_power, float filtered_power),
\* called when the clock reads current_time
detect_events(current_power, filtered_power, current_time) ==
    LET fire == /\ ~Debounced(current_time, last_event_time)
                /\ Significant(filtered_power)
        line == [event_type |-> EventType(filtered_power),
                 device_type |-> DeviceType(current_power, filtered_power),
                 power |-> current_power,
                 delta |-> filtered_power]
        crossing == AbsInt(filtered_power) > EVENT_THRESHOLD
    IN  /\ clock' = current_time
        /\ last_event_time' = NextEventTime(fire, current_time, last_event_time)
        /\ event_count' = IF fire THEN event_count + 1 ELSE event_count
        /\ last_event' = IF fire THEN line ELSE last_event
        /\ call' = [n |-> 1,
                    time |-> current_time,
                    last_before |-> last_event_time,
                    last_after |-> last_event_time',
                    power |-> current_power,
                    filtered |-> filtered_power,
                    logged |-> event_count' - event_count,
                    line |-> IF event_count' > event_count
                             THEN last_event' ELSE NoLine,
                    first |-> event_count = 0,
                    warmup |-> warmup]
        /\ prev_cross' = IF call.n > 0 /\ AbsInt(call.filtered) > EVENT_THRESHOLD
                         THEN [n |-> 1, time |-> call.time, logged |-> call.logged]
                         ELSE prev_cross
        /\ first_cross' = IF crossing /\ first_cross.n = 0
                          THEN [n |-> 1, time |-> current_time,
                                logged |-> event_count' - event_count]
                          ELSE first_cross
        /\ warmup' = IF warmup.open /\ current_power = RatZero
                        /\ filtered_power = 0
                     THEN [n |-> IF warmup.n < WarmUpSamples
                                 THEN warmup.n + 1 ELSE warmup.n,
                           open |-> TRUE]
                     ELSE [n |-> warmup.n, open |-> FALSE]

\* if (++log_counter >= 100), on the incremented counter
LogDue_Early(counter) == counter >= LOG_INTERVAL - 1
LogDue(counter) == counter >= LOG_INTERVAL

\* the body of nilmTask's if (New_ADC_data), after the flag is cleared, for the
\* two voltages read, the value the high-pass cascade returns and the time
\* the clock shows in detect_events
RunPipeline(v0, v1, filtered_power, current_time) ==
    LET current_power == calculate_power(v0, v1)
        new_buf == StoreSample(power_buffer, power_index, current_power)
        new_idx == NextIndex(power_index)
        new_full == FullAfterPush(power_buffer_full, new_idx)
        new_base == IF BaselineDue(new_full)
                    THEN Baseline(new_buf) ELSE baseline_power
        fire_log == LogDue(log_counter + 1)
    IN  /\ power_buffer' = new_buf
        /\ power_index' = new_idx
        /\ power_buffer_full' = new_full
        /\ baseline_power' = new_base
        /\ baseline_written' = (baseline_written \/ BaselineDue(new_full))
        /\ pushed' = Append(pushed, current_power)
        /\ detect_events(current_power, filtered_power, current_time)
        /\ log_counter' = IF fire_log THEN 0 ELSE log_counter + 1
        /\ status' = IF fire_log
                     THEN [n |-> status.n + 1,
                           power |-> current_power,
                           baseline |-> new_base,
                           filtered |-> filtered_power,
                           full |-> new_full,
                           buffer |-> new_buf]
                     ELSE status

(***************************************************************************)
(* nilmTask (consumer)                                                     *)
(***************************************************************************)
\* ulTaskNotifyTake(pdTRUE, portMAX_DELAY) returns: the value is cleared
NilmTake ==
    /\ nilm_pc = "take"
    /\ nilm_notify > 0
    /\ nilm_notify' = 0
    /\ nilm_pc' = "check"
    /\ UNCHANGED <<pure_vars, sig_hist_vars, filter_vars, voltage, New_ADC_data, cb_notify, cb_vars, arg, arg_read,
                   pipe_vars, clock, pattern_pos, cb_hist_vars, nilm_hist_vars, overrun>>

\* if (New_ADC_data)
NilmCheck ==
    /\ nilm_pc = "check"
    /\ nilm_pc' = IF New_ADC_data THEN "clear" ELSE "take"
    /\ UNCHANGED <<pure_vars, sig_hist_vars, filter_vars, shared_vars, cb_vars, arg, arg_read, pipe_vars, clock, pattern_pos,
                   cb_hist_vars, nilm_hist_vars, overrun>>

\* New_ADC_data = pdFALSE
NilmClear ==
    /\ nilm_pc = "clear"
    /\ New_ADC_data' = FALSE
    /\ nilm_pc' = "read"
    /\ arg_read' = {}
    /\ UNCHANGED <<pure_vars, sig_hist_vars, filter_vars, voltage, cb_notify, nilm_notify, cb_vars, arg, pipe_vars,
                   clock, pattern_pos, cb_hist_vars, nilm_hist_vars, overrun>>

\* one argument of calculate_power(voltage[0], voltage[1]) is read (the order
\* in which C evaluates the two arguments is unspecified)
NilmReadArg ==
    /\ nilm_pc = "read"
    /\ \E c \in (0..1) \ arg_read :
        /\ arg' = [arg EXCEPT ![c] = voltage[c]]
        /\ arg_id' = [arg_id EXCEPT ![c] = voltage_id[c]]
        /\ arg_read' = arg_read \cup {c}
        /\ nilm_pc' = IF arg_read \cup {c} = 0..1 THEN "run" ELSE "read"
    /\ UNCHANGED <<pure_vars, sig_hist_vars, filter_vars, shared_vars, cb_vars, pipe_vars, clock, pattern_pos, cb_hist_vars,
                   runs, pushed, baseline_written, detect_hist_vars, overrun>>

\* the rest of the iteration: power, filter, ring buffer, baseline,
\* detect_events, periodic log
NilmRunWith(filtered_values, steps) ==
    /\ nilm_pc = "run"
    /\ \E filtered_power \in filtered_values, d \in Elapsed(steps) :
        RunPipeline(arg[0], arg[1], filtered_power, TickCountMs(d))
    /\ runs' = Append(runs, <<arg_id[0], arg_id[1]>>)
    /\ nilm_pc' = "take"
    /\ UNCHANGED <<pure_vars, sig_hist_vars, filter_vars, shared_vars, cb_vars, arg, arg_read, cb_hist_vars,
                   arg_id, overrun, pattern_pos>>

(***************************************************************************)
(* The two tasks running concurrently                                      *)
(***************************************************************************)
CbReadOk == CbReadOkUpTo(MaxFrame)
CbSample ==
    /\ CbSampleFrom({PatternChannel(pattern_pos)}, DataValues)
    /\ pattern_pos' = 1 - pattern_pos
NilmRun == NilmRunWith(FilteredValues, TickSteps)

Next ==
    \/ Callback
    \/ CbTake
    \/ CbReadFail
    \/ CbReadOk
    \/ CbLoopExit
    \/ CbSample
    \/ CbEmitV0
    \/ CbEmitV1
    \/ CbSetFlag
    \/ CbGive
    \/ NilmTake
    \/ NilmCheck
    \/ NilmClear
    \/ NilmReadArg
    \/ NilmRun

Spec == Init /\ [][Next]_vars

\* The two tasks under the FreeRTOS scheduler.  cbTask (priority 5) blocks in
\* ulTaskNotifyTake after every frame, so nilmTask (priority 4) gets the
\* processor whenever it is ready and cbTask is not: a task whose next step
\* stays possible eventually takes it.  Nothing obliges the ADC to deliver
\* another frame.
cbTask ==
    \/ CbTake
    \/ CbReadFail
    \/ CbReadOk
    \/ CbLoopExit
    \/ CbSample
    \/ CbEmitV0
    \/ CbEmitV1
    \/ CbSetFlag
    \/ CbGive
nilmTask ==
    \/ NilmTake
    \/ NilmCheck
    \/ NilmClear
    \/ NilmReadArg
    \/ NilmRun

NextFair ==
    \/ Callback
    \/ cbTask
    \/ nilmTask

SpecFair ==
    /\ Init
    /\ [][NextFair]_vars
    /\ WF_vars(cbTask)
    /\ WF_vars(nilmTask)

(***************************************************************************)
(* cbTask alone, fed any stream of results (cbTask reads nothing that      *)
(* nilmTask writes)                                                        *)
(***************************************************************************)
\* channel tags a result can carry (the two configured ones and another one)
\* and raw readings (0 V and full scale)
AnyChannels == {ADC1_CHANNEL_4, ADC1_CHANNEL_5, ADC1_CHANNEL_5 + 1}
AnyData == {0, ADC_FULL_SCALE}

CbSampleAny ==
    /\ CbSampleFrom(AnyChannels, AnyData)
    /\ UNCHANGED pattern_pos

NextDecim ==
    \/ Callback
    \/ CbTake
    \/ CbReadFail
    \/ CbReadOk
    \/ CbLoopExit
    \/ CbSampleAny
    \/ CbEmitV0
    \/ CbEmitV1
    \/ CbSetFlag
    \/ CbGive

SpecDecim == Init /\ [][NextDecim]_vars

(***************************************************************************)
(* One biquad section: apply_biquad (main pipeline) and                    *)
(* apply_biquad_section (nilm_filters.c) on the same integer coefficients  *)
(***************************************************************************)
\* static float apply_biquad(float input, int section): the new state and
\* the output, for the state and the coefficient row of that section
apply_biquad(state, coeffs, input) ==
    LET x == [i \in 0..2 |-> IF i = 2 THEN state.x[1]
                             ELSE IF i = 1 THEN state.x[0]
                             ELSE input]
        output == coeffs[0] * x[0] + coeffs[1] * x[1] + coeffs[2] * x[2]
                  - coeffs[4] * state.y[1] - coeffs[5] * state.y[2]
        y == [i \in 0..2 |-> IF i = 2 THEN state.y[1]
                             ELSE IF i = 1 THEN state.y[0]
                             ELSE output]
    IN  [state |-> [x |-> x, y |-> y], output |-> output]

\* float apply_biquad_section(float input, biquad_section_t *section)
apply_biquad_section(input, sec) ==
    LET output == sec.b0 * input + sec.w1
        w1 == sec.b1 * input - sec.a1 * output + sec.w2
        w2 == sec.b2 * input - sec.a2 * output
    IN  [section |-> [sec EXCEPT !.w1 = w1, !.w2 = w2], output |-> output]

\* coefficient rows [b0, b1, b2, a0 = 1, a1, a2] and input samples tried
CoeffValues == {0 - 2, 0, 1}
CoeffRows == {r \in [0..5 -> CoeffValues] : r[0] = 1 /\ r[3] = 1}
InputValues == {0 - 1, 0, 1}

InitBiquad ==
    /\ InitRest
    /\ \E row \in CoeffRows : InitFilter(row)
    /\ InitCascade(0)
    /\ InitClassify(RatZero)

\* the same sample is given to both implementations
BiquadStep ==
    /\ bq_n < MaxSteps
    /\ \E input \in InputValues :
        LET m == apply_biquad(filter_states, filter_coeffs, input)
            l == apply_biquad_section(input, section)
        IN  /\ filter_states' = m.state
            /\ section' = l.section
            /\ bq_out' = [main |-> m.output, lib |-> l.output]
    /\ bq_n' = bq_n + 1
    /\ UNCHANGED <<pure_vars, sig_hist_vars, filter_coeffs, shared_vars, cb_vars, nilm_ctl_vars,
                   pipe_vars, clock, pattern_pos, cb_hist_vars,
                   nilm_hist_vars, overrun>>

NextBiquad == BiquadStep

SpecBiquad == InitBiquad /\ [][NextBiquad]_vars

(***************************************************************************)
(* detect_events alone, called with any power, filter output and time      *)
(***************************************************************************)
\* instantaneous power (W), filter outputs and clock advances tried
DetectPowers == {100, 500, 1800, 2000, 2001}
DetectFiltered == {0 - (EVENT_THRESHOLD + 1), 0 - EVENT_THRESHOLD, 0,
                   EVENT_THRESHOLD, EVENT_THRESHOLD + 1, 100 * EVENT_THRESHOLD}
DetectSteps == {500, DEBOUNCE_TIME_MS}

DetectCall ==
    /\ \E p \in DetectPowers, f \in DetectFiltered, d \in Elapsed(DetectSteps) :
        detect_events(RatInt(p), f, TickCountMs(d))
    /\ UNCHANGED <<pure_vars, sig_hist_vars, filter_vars, shared_vars, cb_vars, nilm_ctl_vars,
                   power_buffer, power_index, power_buffer_full,
                   baseline_power, log_counter, status, pattern_pos,
                   cb_hist_vars, arg_id, runs, pushed, baseline_written,
                   overrun>>

NextDetect == DetectCall

SpecDetect == Init /\ [][NextDetect]_vars

(***************************************************************************)
(* detect_events over the wrap-around of the millisecond clock: calls any  *)
(* time apart, the true time since the last accepted event kept aside      *)
(***************************************************************************)
\* true times between two calls (ms): inside the debounce window, at its
\* edge, and long enough to take the 32-bit clock near or past its wrap
WrapSteps == {U32(0, 500), U32(0, DEBOUNCE_TIME_MS - 1), U32(0, DEBOUNCE_TIME_MS),
              U32(Half - 1, Half - DEBOUNCE_TIME_MS - 500),
              U32(Half \div 2, 0)}
WrapFiltered == {EVENT_THRESHOLD + 10, 0 - (EVENT_THRESHOLD + 10)}

WrapCall ==
    /\ since_event.n < MaxCalls
    /\ \E f \in WrapFiltered, d \in WrapSteps :
        /\ U32AddFits(since_event.elapsed, d)
        /\ detect_events(RatInt(2001), f, U32Add(clock, d))
        /\ since_event' =
              [n |-> since_event.n + 1,
               seen |-> U32Add(since_event.elapsed, d),
               had_event |-> since_event.accepted,
               accepted |-> since_event.accepted \/ event_count' > event_count,
               elapsed |-> IF event_count' > event_count
                           THEN U32Zero
                           ELSE U32Add(since_event.elapsed, d)]
    /\ UNCHANGED <<cascade_vars, classify_vars, sig_hist_vars, filter_vars,
                   shared_vars, cb_vars, nilm_ctl_vars,
                   power_buffer, power_index, power_buffer_full,
                   baseline_power, log_counter, status, pattern_pos,
                   cb_hist_vars, arg_id, runs, pushed, baseline_written,
                   overrun>>

NextWrap == WrapCall

SpecWrap == Init /\ [][NextWrap]_vars

(***************************************************************************)
(* detect_events at start-up: one call per low-rate sample (10 Hz), a      *)
(* warm-up at 0 W and then a load that stays on                            *)
(***************************************************************************)
\* <<instantaneous power (W), filter output>>: idle; the step's first sample
\* and the following ones (the high-pass output decays slowly, or has
\* already fallen below the threshold)
StartupInputs == {<<0, 0>>, <<1800, 1800>>, <<1800, EVENT_THRESHOLD + 1>>,
                  <<1820, 20>>}

\* the scenario ends after the warm-up, the step's first sample and the
\* debounce window that follows it
StartupHorizon ==
    WarmUpSamples * SamplePeriodMs + SamplePeriodMs + DEBOUNCE_TIME_MS

StartupCall ==
    /\ clock.hi = 0 /\ clock.lo < StartupHorizon
    /\ \E in \in StartupInputs, d \in Elapsed({SamplePeriodMs}) :
        detect_events(RatInt(in[1]), in[2], TickCountMs(d))
    /\ UNCHANGED <<pure_vars, sig_hist_vars, filter_vars, shared_vars, cb_vars, nilm_ctl_vars,
                   power_buffer, power_index, power_buffer_full,
                   baseline_power, log_counter, status, pattern_pos,
                   cb_hist_vars, arg_id, runs, pushed, baseline_written,
                   overrun>>

NextStartup == StartupCall

SpecStartup == Init /\ [][NextStartup]_vars

(***************************************************************************)
(* The nilmTask body alone, run on any sequence of VoltagePairs            *)
(***************************************************************************)
\* decimated voltages (V), filter outputs and clock advances tried
PipelineVoltages == {RatZero, Rat(33, 20), Rat(33, 10)}
PipelineCurrents == {Rat(33, 10)}
PipelineFiltered == {0, EVENT_THRESHOLD + 10}
PipelineSteps == {0, DEBOUNCE_TIME_MS}

NilmBody ==
    /\ Len(pushed) < MaxPush
    /\ \E v0 \in PipelineVoltages, v1 \in PipelineCurrents,
          f \in PipelineFiltered, d \in Elapsed(PipelineSteps) :
        RunPipeline(v0, v1, f, TickCountMs(d))
    /\ UNCHANGED <<pure_vars, sig_hist_vars, filter_vars, shared_vars, cb_vars, nilm_ctl_vars,
                   pattern_pos, cb_hist_vars, arg_id, runs, overrun>>

NextPipeline == NilmBody

SpecPipeline == Init /\ [][NextPipeline]_vars

(***************************************************************************)
(* The nilmTask body alone over several periods of the status log: fewer   *)
(* inputs per sample, more samples                                         *)
(***************************************************************************)
LogVoltages == PipelineVoltages
LogFiltered == {0, EVENT_THRESHOLD + 10}
LogSteps == {0}

LogBody ==
    /\ Len(pushed) < MaxLogged
    /\ \E v0 \in LogVoltages, v1 \in PipelineCurrents,
          f \in LogFiltered, d \in Elapsed(LogSteps) :
        RunPipeline(v0, v1, f, TickCountMs(d))
    /\ UNCHANGED <<pure_vars, sig_hist_vars, filter_vars, shared_vars, cb_vars, nilm_ctl_vars,
                   pattern_pos, cb_hist_vars, arg_id, runs, overrun>>

NextLog == LogBody

SpecLog == Init /\ [][NextLog]_vars

(***************************************************************************)
(* Device classifier of nilm_filters.[ch]                                  *)
(***************************************************************************)
\* the table with the Computer entry declared before the Television entry
device_table_ComputerFirst == <<
    [type |-> "DEVICE_LIGHT", name |-> "Light", min_power |-> 5, max_power |-> 100],
    [type |-> "DEVICE_COMPUTER", name |-> "Computer", min_power |-> 100, max_power |-> 400],
    [type |-> "DEVICE_TV", name |-> "Television", min_power |-> 50, max_power |-> 200],
    [type |-> "DEVICE_MICROWAVE", name |-> "Microwave", min_power |-> 800, max_power |-> 1500],
    [type |-> "DEVICE_DISHWASHER", name |-> "Dishwasher", min_power |-> 1200, max_power |-> 2000],
    [type |-> "DEVICE_WASHING_MACHINE", name |-> "Washing Machine", min_power |-> 500, max_power |-> 2500],
    [type |-> "DEVICE_AIR_CONDITIONER", name |-> "Air Conditioner", min_power |-> 1000, max_power |-> 3000],
    [type |-> "DEVICE_WATER_HEATER", name |-> "Water Heater", min_power |-> 1500, max_power |-> 4000],
    [type |-> "DEVICE_REFRIGERATOR", name |-> "Refrigerator", min_power |-> 100, max_power |-> 300] >>

\* static const device_power_range_t device_table[]
device_table == <<
    [type |-> "DEVICE_LIGHT", name |-> "Light", min_power |-> 5, max_power |-> 100],
    [type |-> "DEVICE_TV", name |-> "Television", min_power |-> 50, max_power |-> 200],
    [type |-> "DEVICE_COMPUTER", name |-> "Computer", min_power |-> 100, max_power |-> 400],
    [type |-> "DEVICE_MICROWAVE", name |-> "Microwave", min_power |-> 800, max_power |-> 1500],
    [type |-> "DEVICE_DISHWASHER", name |-> "Dishwasher", min_power |-> 1200, max_power |-> 2000],
    [type |-> "DEVICE_WASHING_MACHINE", name |-> "Washing Machine", min_power |-> 500, max_power |-> 2500],
    [type |-> "DEVICE_AIR_CONDITIONER", name |-> "Air Conditioner", min_power |-> 1000, max_power |-> 3000],
    [type |-> "DEVICE_WATER_HEATER", name |-> "Water Heater", min_power |-> 1500, max_power |-> 4000],
    [type |-> "DEVICE_REFRIGERATOR", name |-> "Refrigerator", min_power |-> 100, max_power |-> 300] >>

\* #define DEVICE_TABLE_SIZE (sizeof(device_table) / sizeof(device_power_range_t))
DEVICE_TABLE_SIZE == Len(device_table)

\* abs_power >= device_table[i].min_power && abs_power <= device_table[i].max_power
InRange_Exclusive(abs_power, entry) ==
    /\ RatGtInt(abs_power, entry.min_power)
    /\ RatLeInt(abs_power, entry.max_power)
InRange(abs_power, entry) ==
    /\ RatGeInt(abs_power, entry.min_power)
    /\ RatLeInt(abs_power, entry.max_power)

\* if (abs_power > 50.0f) return DEVICE_OTHER; else return DEVICE_UNKNOWN
FallbackType_NoFloor(abs_power) == "DEVICE_UNKNOWN"
FallbackType(abs_power) ==
    IF RatGtInt(abs_power, 50) THEN "DEVICE_OTHER" ELSE "DEVICE_UNKNOWN"

\* the for loop of classify_device_by_power from entry i on, then the fallback
RECURSIVE ScanDeviceTable(_, _)
ScanDeviceTable(abs_power, i) ==
    IF i > DEVICE_TABLE_SIZE
    THEN FallbackType(abs_power)
    ELSE IF InRange(abs_power, device_table[i])
         THEN device_table[i].type
         ELSE ScanDeviceTable(abs_power, i + 1)

\* device_type_t classify_device_by_power(float delta_power)
classify_device_by_power(delta_power) == ScanDeviceTable(RatAbs(delta_power), 1)

\* the for loop of get_device_name from entry i on, then the switch
RECURSIVE ScanDeviceName(_, _)
ScanDeviceName(type, i) ==
    IF i > DEVICE_TABLE_SIZE
    THEN IF type = "DEVICE_OTHER" THEN "Other Device"
         ELSE IF type = "DEVICE_UNKNOWN" THEN "Unknown"
         ELSE "Undefined"
    ELSE IF device_table[i].type = type
         THEN device_table[i].name
         ELSE ScanDeviceName(type, i + 1)

\* const char* get_device_name(device_type_t type)
get_device_name(type) == ScanDeviceName(type, 1)

(***************************************************************************)
(* classify_device_by_power and get_device_name called on one power        *)
(***************************************************************************)
\* powers tried: every multiple of 0.5 W up to MaxPower W, of either sign
ClassifyPowers == {Rat(k, 2) : k \in (0 - 2 * MaxPower)..(2 * MaxPower)}

InitClassifier ==
    /\ InitRest
    /\ InitFilter(RowOf(RoundedCoeffs))
    /\ InitCascade(0)
    /\ \E p \in ClassifyPowers : InitClassify(p)

\* type = classify_device_by_power(power_arg); name = get_device_name(type)
ClassifyCall ==
    /\ ~device.called
    /\ device' = [called |-> TRUE,
                  type |-> classify_device_by_power(power_arg),
                  name |-> get_device_name(classify_device_by_power(power_arg))]
    /\ UNCHANGED <<power_arg, cascade_vars, wrap_vars, sig_hist_vars, filter_vars,
                   shared_vars, cb_vars, nilm_ctl_vars, pipe_vars, clock,
                   pattern_pos, cb_hist_vars, nilm_hist_vars, overrun>>

NextClassifier == ClassifyCall

SpecClassifier == InitClassifier /\ [][NextClassifier]_vars

(***************************************************************************)
(* apply_highpass_filter: the cascade of three apply_biquad sections, fed  *)
(* a constant load from zeroed state.  Powers are held in multiples of     *)
(* 1/Resolution W and the coefficients are filter_coeffs rounded to        *)
(* 1/Resolution; every product is rounded down to that resolution.         *)
(***************************************************************************)
Resolution == 1000

\* static const float filter_coeffs[3][6], in units of 1/Resolution
cascade_coeffs == <<
    [i \in 0..5 |-> <<999, 0 - 1998, 999, 1000, 0 - 1998, 998>>[i + 1]],
    [i \in 0..5 |-> <<1000, 0 - 2000, 1000, 1000, 0 - 1997, 997>>[i + 1]],
    [i \in 0..5 |-> <<1000, 0 - 2000, 1000, 1000, 0 - 1996, 996>>[i + 1]] >>

\* coeffs[k] * value
MulCoeff(c, v) == c * (v \div Resolution) + (c * (v % Resolution)) \div Resolution

\* static float apply_biquad(float input, int section) on these quantities:
\* the new state of the section and its output
apply_biquad_fixed(state, coeffs, input) ==
    LET x == [i \in 0..2 |-> IF i = 2 THEN state.x[1]
                             ELSE IF i = 1 THEN state.x[0]
                             ELSE input]
        output == MulCoeff(coeffs[0], x[0]) + MulCoeff(coeffs[1], x[1])
                  + MulCoeff(coeffs[2], x[2])
                  - MulCoeff(coeffs[4], state.y[1])
                  - MulCoeff(coeffs[5], state.y[2])
        y == [i \in 0..2 |-> IF i = 2 THEN state.y[1]
                             ELSE IF i = 1 THEN state.y[0]
                             ELSE output]
    IN  [state |-> [x |-> x, y |-> y], output |-> output]

\* static float apply_highpass_filter(float input): the three sections in
\* series, each on its own state
apply_highpass_filter(states, input) ==
    LET s0 == apply_biquad_fixed(states[0], cascade_coeffs[1], input)
        s1 == apply_biquad_fixed(states[1], cascade_coeffs[2], s0.output)
        s2 == apply_biquad_fixed(states[2], cascade_coeffs[3], s1.output)
    IN  [states |-> [i \in 0..2 |-> IF i = 0 THEN s0.state
                                    ELSE IF i = 1 THEN s1.state
                                    ELSE s2.state],
         output |-> s2.output]

\* constant loads tried, in W
CascadeLoads == (0 - MaxLoad)..MaxLoad

InitHighpass ==
    /\ InitRest
    /\ InitFilter(RowOf(RoundedCoeffs))
    /\ InitClassify(RatZero)
    /\ \E w \in CascadeLoads : InitCascade(w * Resolution)

\* filtered_power = apply_highpass_filter(current_power), the load unchanged
HighpassStep ==
    /\ hp_n < MaxSamples
    /\ LET r == apply_highpass_filter(hp_states, hp_load)
       IN  /\ hp_states' = r.states
           /\ hp_out' = r.output
    /\ hp_n' = hp_n + 1
    /\ UNCHANGED <<hp_load, classify_vars, wrap_vars, sig_hist_vars, filter_vars,
                   shared_vars, cb_vars, nilm_ctl_vars, pipe_vars, clock,
                   pattern_pos, cb_hist_vars, nilm_hist_vars, overrun>>

NextHighpass == HighpassStep

SpecHighpass == InitHighpass /\ [][NextHighpass]_vars

(***************************************************************************)
(* Claims                                                                  *)
(***************************************************************************)
\* cbTask has just written both values of a VoltagePair
PairJustEmitted == cb_pc \in {"set_flag", "give"}

\* during the period that ended with the last emission the two channels
\* delivered the same number of results
Lockstep == last_period.n[0] = last_period.n[1]

\* C1: decimation correctness.  When the two channels deliver their results
\* in lockstep, every emitted VoltagePair is, per channel, the arithmetic mean
\* of the converted samples that channel received since the previous
\* emission (its sum divided by the number of samples the sum contains).
C1_DecimationMean ==
    (PairJustEmitted /\ Lockstep) =>
        \A c \in 0..1 :
            last_period.n[c] > 0 =>
                voltage[c] = RatDivInt(last_period.sum[c], last_period.n[c])

\* number of pipeline runs that consumed both values of emission k
RunsOf(k) == Cardinality({i \in 1..Len(runs) : runs[i] = <<k, k>>})

\* nilmTask is blocked with nothing pending and cbTask is not between the
\* write of a pair and its notification: nothing is left to hand off
Quiescent ==
    /\ nilm_pc = "take"
    /\ nilm_notify = 0
    /\ cb_pc \notin {"emit_v1", "set_flag", "give"}

\* C2: under every interleaving each VoltagePair emitted by cbTask
\* is run through the nilmTask pipeline exactly once: never twice, and once
\* nothing is left to hand off, never zero times.
C2_ExactlyOnce ==
    /\ \A k \in 1..emitted : RunsOf(k) <= 1
    /\ Quiescent => \A k \in 1..emitted : RunsOf(k) = 1

\* The hand-off is exactly-once in the executions in which nilmTask has
\* finished its pipeline run on each pair before cbTask starts writing the
\* next one.
C2_ExactlyOnceWithoutOverrun ==
    ~overrun =>
        /\ \A k \in 1..emitted : RunsOf(k) <= 1
        /\ \A i \in 1..Len(runs) : runs[i] = <<i, i>>
        /\ Quiescent => \A k \in 1..emitted : RunsOf(k) = 1

\* two pairs have been handed off one after the other without overrun
C2_Witness ==
    /\ ~overrun
    /\ Quiescent
    /\ emitted = 2
    /\ runs = <<(<<1, 1>>), (<<2, 2>>)>>

\* C3: from zeroed state and on the same (b0, b1, b2, a1, a2), apply_biquad
\* and apply_biquad_section (the Direct-Form-II-Transposed recurrence)
\* produce the same output for every input sequence.
C3_BiquadEquivalence == bq_n > 0 => bq_out.main = bq_out.lib

\* milliseconds from the clock value earlier to the clock value later (the
\* clock has not wrapped in between)
MsBetween(later, earlier) ==
    (later.hi - earlier.hi) * Half + later.lo - earlier.lo

\* the last detect_events call and the one before it that crossed the
\* threshold are two threshold-crossing calls with no crossing in between
TwoCrossings ==
    /\ call.n > 0
    /\ AbsInt(call.filtered) > EVENT_THRESHOLD
    /\ prev_cross.n > 0

\* C4: debounce idempotence.  Two threshold-crossing calls of detect_events
\* with no other crossing between them yield exactly one event when they are
\* less than DEBOUNCE_TIME_MS apart and exactly two when they are more than
\* DEBOUNCE_TIME_MS apart.
C4_DebounceIdempotence ==
    TwoCrossings =>
        /\ MsBetween(call.time, prev_cross.time) < DEBOUNCE_TIME_MS
              => prev_cross.logged + call.logged = 1
        /\ MsBetween(call.time, prev_cross.time) > DEBOUNCE_TIME_MS
              => prev_cross.logged + call.logged = 2

\* the last call is the first sample of the step: it follows a full warm-up
\* at 0 W, nothing else came before it, and its filter output is above the
\* threshold
StepAfterWarmUp ==
    /\ call.n > 0
    /\ call.warmup.open
    /\ call.warmup.n = WarmUpSamples
    /\ call.filtered > EVENT_THRESHOLD

\* C5: start-up scenario.  After a warm-up of WarmUpSamples samples at 0 W,
\* the first sample of a sustained step whose filter output exceeds the
\* threshold is reported as one ON event (it is not suppressed: no event was
\* accepted before), and no call in the DEBOUNCE_TIME_MS after that first
\* sample reports another event.
C5_StartupStep ==
    /\ StepAfterWarmUp => (call.logged = 1 /\ call.line.event_type = "ON")
    /\ (/\ call.n > 0
        /\ first_cross.n > 0
        /\ MsBetween(call.time, first_cross.time) > 0
        /\ MsBetween(call.time, first_cross.time) < DEBOUNCE_TIME_MS)
          => call.logged = 0

\* the last call printed an ON event
OnEvent == call.n > 0 /\ call.logged = 1 /\ call.line.event_type = "ON"

C7_DebounceGate ==
    (/\ call.n > 0
     /\ MsBetween(call.time, call.last_before) < DEBOUNCE_TIME_MS)
        => /\ call.logged = 0
           /\ call.last_after = call.last_before
           /\ last_event_time = call.last_before

\* a call with a very large filter output was suppressed inside the window
\* that an accepted event opened
C7_Witness ==
    /\ call.n > 0
    /\ event_count > 0
    /\ call.filtered = 100 * EVENT_THRESHOLD
    /\ MsBetween(call.time, call.last_before) < DEBOUNCE_TIME_MS
    /\ call.logged = 0

\* C8: threshold test.  A call of detect_events at least DEBOUNCE_TIME_MS
\* after last_event_time prints an event if and only if |filtered| is
\* strictly above EVENT_THRESHOLD; the event is ON exactly when filtered > 0
\* and OFF otherwise; when the test fails nothing is printed and
\* last_event_time is unchanged.
C8_ThresholdTest ==
    (/\ call.n > 0
     /\ MsBetween(call.time, call.last_before) >= DEBOUNCE_TIME_MS)
        => /\ call.logged \in {0, 1}
           /\ call.logged = 1 <=> AbsInt(call.filtered) > EVENT_THRESHOLD
           /\ call.logged = 1 =>
                 /\ call.line.event_type =
                       (IF call.filtered > 0 THEN "ON" ELSE "OFF")
                 /\ call.last_after = call.time
           /\ call.logged = 0 => call.last_after = call.last_before

\* an OFF event was printed, and a call exactly at the threshold printed none
C8_Witness ==
    /\ call.n > 0
    /\ MsBetween(call.time, call.last_before) >= DEBOUNCE_TIME_MS
    /\ \/ call.filtered = 0 - (EVENT_THRESHOLD + 1) /\ call.line.event_type = "OFF"
       \/ call.filtered = EVENT_THRESHOLD /\ call.logged = 0 /\ event_count > 0

\* sum of the last n PowerSamples pushed
RECURSIVE SumOfLast(_)
SumOfLast(n) ==
    IF n = 0 THEN RatZero
    ELSE RatAdd(SumOfLast(n - 1), pushed[Len(pushed) - n + 1])

\* the i-th oldest (i = 0 is the oldest) of the last POWER_BUFFER_SIZE
\* PowerSamples pushed
LastPushed(i) == pushed[Len(pushed) - POWER_BUFFER_SIZE + 1 + i]

\* C9: baseline mean law.  After every push once at least POWER_BUFFER_SIZE
\* PowerSamples have been pushed, the ring buffer holds exactly the last
\* POWER_BUFFER_SIZE PowerSamples, the oldest at the cursor (the slot the
\* next push overwrites), and baseline_power is their arithmetic mean.
C9_BaselineMean ==
    Len(pushed) >= POWER_BUFFER_SIZE =>
        /\ \A i \in 0..(POWER_BUFFER_SIZE - 1) :
              power_buffer[(power_index + i) % POWER_BUFFER_SIZE] = LastPushed(i)
        /\ baseline_power =
              Rat(SumOfLast(POWER_BUFFER_SIZE).num,
                  SumOfLast(POWER_BUFFER_SIZE).den * POWER_BUFFER_SIZE)

\* more than POWER_BUFFER_SIZE samples were pushed, the window holds
\* different values, and the sample that fell out differs from the one that
\* replaced it
C9_Witness ==
    /\ Len(pushed) > POWER_BUFFER_SIZE
    /\ pushed[Len(pushed) - POWER_BUFFER_SIZE] # pushed[Len(pushed)]
    /\ \E i \in 0..(POWER_BUFFER_SIZE - 1) : LastPushed(i) # LastPushed(0)
    /\ baseline_power # RatZero

\* C10: ring-buffer full flag.  Between pushes power_index is in
\* 0..POWER_BUFFER_SIZE-1, power_buffer_full is true exactly when at least
\* POWER_BUFFER_SIZE samples have been pushed, baseline_power has not been
\* assigned while the flag is false, and the flag never goes back to false.
C10_FullFlag ==
    /\ [](/\ power_index \in 0..(POWER_BUFFER_SIZE - 1)
          /\ power_buffer_full <=> (Len(pushed) >= POWER_BUFFER_SIZE)
          /\ ~power_buffer_full =>
                (~baseline_written /\ baseline_power = RatZero))
    /\ [][power_buffer_full => power_buffer_full']_vars

\* the flag is still set after the cursor has moved on from slot 0 of the
\* second lap, and the baseline has been assigned
C10_Witness ==
    /\ power_buffer_full
    /\ Len(pushed) > POWER_BUFFER_SIZE
    /\ power_index # 0
    /\ baseline_written

\* |power_arg|
AbsPowerArg == Rat(AbsInt(power_arg.num), power_arg.den)

\* indices of the device_table entries whose inclusive range contains |power_arg|
MatchingEntries ==
    {i \in 1..Len(device_table) :
        /\ device_table[i].min_power * AbsPowerArg.den <= AbsPowerArg.num
        /\ AbsPowerArg.num <= device_table[i].max_power * AbsPowerArg.den}

\* C11: classifier first-match.  For every power p for which at least one
\* device_table entry has min_power <= |p| <= max_power,
\* classify_device_by_power(p) returns the type of the lowest-index such
\* entry in declared order (bounds inclusive).
C11_FirstMatch ==
    (device.called /\ MatchingEntries # {}) =>
        \E i \in MatchingEntries :
            /\ \A j \in MatchingEntries : i <= j
            /\ device.type = device_table[i].type

\* a power on the shared bound of overlapping ranges (100 W: Light, TV,
\* Computer, Refrigerator) was classified as the first of them
C11_Witness ==
    /\ device.called
    /\ power_arg = RatInt(0 - 100)
    /\ Cardinality(MatchingEntries) = 4
    /\ device.type = "DEVICE_LIGHT"

\* C12: classifier lookups never fail.  classify_device_by_power returns a
\* device type for every power; when no table range contains |p| it returns
\* DEVICE_OTHER if |p| > 50 W and DEVICE_UNKNOWN otherwise, and it returns
\* DEVICE_OTHER or DEVICE_UNKNOWN only when no table range contains |p|.
C12_LookupTotal ==
    device.called =>
        /\ device.type \in {device_table[i].type : i \in 1..Len(device_table)}
                              \cup {"DEVICE_OTHER", "DEVICE_UNKNOWN"}
        /\ MatchingEntries = {} =>
              device.type = (IF AbsPowerArg.num > 50 * AbsPowerArg.den
                             THEN "DEVICE_OTHER" ELSE "DEVICE_UNKNOWN")
        /\ device.type \in {"DEVICE_OTHER", "DEVICE_UNKNOWN"} =>
              MatchingEntries = {}

\* a power in the gap between the Computer and the Washing Machine ranges
\* was classified as DEVICE_OTHER, or one below every range as DEVICE_UNKNOWN
C12_Witness ==
    /\ device.called
    /\ MatchingEntries = {}
    /\ \/ power_arg = RatInt(450) /\ device.type = "DEVICE_OTHER"
       \/ power_arg = Rat(9, 2) /\ device.type = "DEVICE_UNKNOWN"

\* C13 as claimed: classify_device_by_power(150.0) returns the Computer
\* entry, the first declared entry whose range contains 150.
C13_Computer ==
    (device.called /\ power_arg = RatInt(150)) =>
        /\ device.type = "DEVICE_COMPUTER"
        /\ device.name = "Computer"

\* C13 as amended: classify_device_by_power(150.0) returns the Television
\* entry (range [50,200], declared second, before the Computer range
\* [100,400] and the Refrigerator range [100,300]), that being the first
\* declared entry whose range contains 150.
C13_Television ==
    (device.called /\ power_arg = RatInt(150)) =>
        /\ device.type = "DEVICE_TV"
        /\ device.name = "Television"
        /\ MatchingEntries = {2, 3, 9}

\* 150 W was classified, and three declared ranges contain it
C13_Witness ==
    /\ device.called
    /\ power_arg = RatInt(150)
    /\ Cardinality(MatchingEntries) = 3
    /\ device.type = "DEVICE_TV"

\* the last result cbTask processed carried a channel tag that is neither of
\* the two configured channels
OtherChannelResult ==
    /\ last_result.channel >= 0
    /\ last_result.channel \notin {ADC1_CHANNEL_4, ADC1_CHANNEL_5}

\* C14: a raw sample whose channel identifier is neither of the two
\* configured channels is dropped without being counted: processing it
\* leaves voltage_sum[0], voltage_sum[1] and decimation_counter unchanged
\* and does not trigger an emission.
C14_OtherChannelDropped ==
    OtherChannelResult =>
        /\ last_result.sums_kept
        /\ last_result.counter_kept
        /\ ~last_result.emits

\* cbTask is between two processed results (not inside a loop iteration)
BetweenSamples == cb_pc \in {"take", "read", "loop"}

\* cbTask has just executed the resets that end an emission
JustReset == cb_pc = "set_flag"

\* C15: accumulator invariant.  Between processed samples decimation_counter
\* is in 0..DECIMATION_FACTOR-1, and immediately after every emission
\* voltage_sum[0], voltage_sum[1] and decimation_counter are all zero.
C15_AccumulatorInvariant ==
    /\ BetweenSamples => decimation_counter \in 0..(DECIMATION_FACTOR - 1)
    /\ JustReset =>
          /\ voltage_sum[0] = RatZero
          /\ voltage_sum[1] = RatZero
          /\ decimation_counter = 0

\* an emission has just reset accumulators that held nonzero sums
C15_Witness ==
    /\ JustReset
    /\ last_period.sum[0] # RatZero
    /\ last_period.sum[1] # RatZero
    /\ voltage_sum = [c \in 0..1 |-> RatZero]
    /\ emitted = 2

\* C16: the data-ready signal is edge-triggered.  cbTask sets New_ADC_data
\* and notifies nilmTask exactly once per decimation period, that is once
\* per DECIMATION_FACTOR counted samples, never in between and never a
\* second time for the same VoltagePair.
C16_EdgeTriggered ==
    /\ signals.give <= signals.flag
    /\ signals.flag <= emitted
    /\ emitted <= signals.give + 1
    /\ BetweenSamples =>
          /\ signals.flag = emitted
          /\ signals.give = emitted
          /\ counted = DECIMATION_FACTOR * signals.give + decimation_counter

\* two periods have been signalled and a third one has begun without a
\* further signal
C16_Witness ==
    /\ BetweenSamples
    /\ signals = [flag |-> 2, give |-> 2]
    /\ counted > 2 * DECIMATION_FACTOR
    /\ New_ADC_data

\* C17: VoltagePair integrity across the hand-off.  Under every interleaving
\* of cbTask and nilmTask, the voltage[0] and voltage[1] consumed by one
\* calculate_power call belong to the same emitted VoltagePair.
C17_PairIntegrity ==
    /\ nilm_pc = "run" => arg_id[0] = arg_id[1]
    /\ \A i \in 1..Len(runs) : runs[i][1] = runs[i][2]

\* C18: overrun semantics.  When cbTask emits two or more VoltagePairs before
\* nilmTask consumes, the pipeline is run exactly once for them, on the most
\* recently emitted pair: once nothing is left to hand off the last run is
\* the run of the last pair emitted, and no pair is run a second time (a
\* leftover notification finds New_ADC_data false and processes nothing).
C18_OverrunSemantics ==
    /\ (Quiescent /\ emitted > 0) =>
          /\ Len(runs) > 0
          /\ runs[Len(runs)] = <<emitted, emitted>>
    /\ \A i \in 1..Len(runs) : \A j \in 1..Len(runs) :
          i < j => runs[i] # runs[j]

\* C19: steady-state rejection.  A constant PowerSample value fed into the
\* three-section high-pass cascade from zeroed state never produces an
\* |output| above EVENT_THRESHOLD: the output stays bounded and goes to
\* zero.  The loads tried are themselves below EVENT_THRESHOLD, so that the
\* transient of a bounded high-pass response (which starts at b0 times the
\* load) is below the threshold as well.
C19_SteadyStateRejection ==
    (hp_n > 0 /\ AbsInt(hp_load) <= EVENT_THRESHOLD * Resolution) =>
        AbsInt(hp_out) <= EVENT_THRESHOLD * Resolution

\* C20: DebounceState is updated only on an accepted detection.
\* last_event_time changes only in a step in which detect_events prints an
\* event, and then it becomes the current time; debounced calls, calls that
\* fail the threshold test and every other step leave it unchanged.
C20_DebounceStateFrame ==
    [][/\ last_event_time' # last_event_time =>
             /\ event_count' = event_count + 1
             /\ last_event_time' = clock'
       /\ event_count' # event_count =>
             /\ last_event_time' = clock'
             /\ last_event_time' # last_event_time]_vars

\* an event has been accepted and later calls, one of them below the
\* threshold after the window had passed, left last_event_time alone
C20_Witness ==
    /\ event_count > 0
    /\ call.n > 0
    /\ call.logged = 0
    /\ MsBetween(call.time, call.last_before) >= DEBOUNCE_TIME_MS
    /\ last_event_time = call.last_before
    /\ last_event_time # U32Zero

\* the last call printed an OFF event
OffEvent == call.n > 0 /\ call.logged = 1 /\ call.line.event_type = "OFF"

\* C21: classification asymmetry.  An event printed for a negative filter
\* output is an OFF event and reports the device type "unknown" whatever
\* the instantaneous power; an event that reports any other device type is
\* an ON event, printed for a positive filter output.
C21_OffUnclassified ==
    (call.n > 0 /\ call.logged = 1) =>
        /\ call.filtered < 0 <=> call.line.event_type = "OFF"
        /\ call.filtered > 0 <=> call.line.event_type = "ON"
        /\ call.line.event_type = "OFF" => call.line.device_type = "unknown"
        /\ call.line.device_type # "unknown" =>
              /\ call.line.event_type = "ON"
              /\ call.filtered > EVENT_THRESHOLD

\* an OFF event at 2001 W, a power that the ON branch reports as heating,
\* was reported with the device type unknown
C21_Witness ==
    /\ OffEvent
    /\ call.power = RatInt(2001)
    /\ call.filtered < 0 - EVENT_THRESHOLD
    /\ call.line.device_type = "unknown"

\* C22: a driver read failure is absorbed.  The step in which
\* adc_continuous_read returns an error leaves voltage_sum,
\* decimation_counter, voltage[] and New_ADC_data unchanged, gives nilmTask no
\* notification and takes cbTask back to ulTaskNotifyTake, which it leaves
\* only on a notification from the ADC callback (no retry of the read).
C22_ReadFailureAbsorbed ==
    [][/\ (cb_pc = "read" /\ cb_pc' # "read" /\ ret' # "ESP_OK") =>
              /\ ret' = "ESP_FAIL"
              /\ cb_pc' = "take"
              /\ UNCHANGED <<voltage_sum, decimation_counter, voltage,
                             New_ADC_data, nilm_notify, cb_notify, signals,
                             emitted, rx_left>>
       /\ (cb_pc = "take" /\ cb_pc' # "take") =>
              /\ cb_notify > 0
              /\ cb_pc' = "read"]_vars

\* a read failed in the middle of a decimation period: cbTask waits again
\* with the partial sums and the counter of the period still in place
C22_Witness ==
    /\ ret = "ESP_FAIL"
    /\ cb_pc = "take"
    /\ decimation_counter > 0
    /\ voltage_sum[0] # RatZero
    /\ nilm_notify = 0
    /\ emitted > 0

\* the flag is up, nilmTask is blocked in ulTaskNotifyTake and no
\* notification is pending or about to be given
LostWakeup ==
    /\ New_ADC_data
    /\ nilm_pc = "take"
    /\ nilm_notify = 0
    /\ cb_pc # "give"

\* nilmTask has completed a pipeline run that cleared the flag after the
\* k-th emission raised it (it has read both voltages of that emission or
\* of a later one)
RunSince(k) ==
    \E i \in 1..Len(runs) : runs[i][1] >= k /\ runs[i][2] >= k

\* C23: no lost wake-up.  Whenever New_ADC_data is true and nilmTask is
\* blocked in ulTaskNotifyTake, a notification to nilmTask is pending or
\* cbTask is about to give one; and, the scheduler being fair to both tasks,
\* every emission (New_ADC_data raised for the k-th time) is eventually
\* followed by a pipeline run of nilmTask that cleared the flag after it.
C23_NoLostWakeup ==
    /\ [](~LostWakeup)
    /\ \A k \in 1..MaxEmit :
          (signals.flag >= k) ~> (RunSince(k) /\ nilm_pc = "take")

\* the first emission has been run through the pipeline and the second
\* one is waiting, flag up and notification pending, for nilmTask to wake
C23_Witness ==
    /\ signals.flag = 2
    /\ RunSince(1)
    /\ ~RunSince(2)
    /\ New_ADC_data
    /\ nilm_pc = "take"
    /\ nilm_notify > 0

\* the status log has just fired: the last sample processed was a
\* multiple of LOG_INTERVAL
JustLogged == Len(pushed) > 0 /\ Len(pushed) % LOG_INTERVAL = 0

\* C24: periodic status readout.  log_counter stays in 0..LOG_INTERVAL-1
\* between iterations and counts the samples processed since the last
\* readout, so that the status log has fired exactly once per LOG_INTERVAL
\* processed samples; and at every firing power_buffer_full is true and the
\* baseline printed is baseline_power, the mean of the buffer contents,
\* which are the last POWER_BUFFER_SIZE samples.
C24_StatusReadout ==
    /\ log_counter \in 0..(LOG_INTERVAL - 1)
    /\ log_counter = Len(pushed) % LOG_INTERVAL
    /\ status.n = Len(pushed) \div LOG_INTERVAL
    /\ status.n > 0 => status.full
    /\ JustLogged =>
          /\ power_buffer_full
          /\ status.full
          /\ status.power = pushed[Len(pushed)]
          /\ status.buffer = power_buffer
          /\ \A i \in 0..(POWER_BUFFER_SIZE - 1) :
                status.buffer[(power_index + i) % POWER_BUFFER_SIZE] =
                    LastPushed(i)
          /\ status.baseline = baseline_power
          /\ status.baseline =
                Rat(SumOfLast(POWER_BUFFER_SIZE).num,
                    SumOfLast(POWER_BUFFER_SIZE).den * POWER_BUFFER_SIZE)

\* the status log has fired for the second time, on a buffer that holds
\* different samples and has a baseline other than 0
C24_Witness ==
    /\ JustLogged
    /\ status.n = 2
    /\ log_counter = 0
    /\ status.baseline # RatZero
    /\ \E i \in 0..(POWER_BUFFER_SIZE - 1) : status.buffer[i] # status.buffer[0]

\* the true time since the last accepted event, as the last call of
\* detect_events found it, was shorter than the debounce window
TrulyInsideWindow ==
    since_event.seen.hi = 0 /\ since_event.seen.lo < DEBOUNCE_TIME_MS

\* at the last call the 32-bit clock had wrapped past last_event_time
WrappedPast ==
    /\ call.last_before.hi = Half - 1
    /\ call.time.hi = 0

\* C25: debounce across the wrap-around of the 32-bit millisecond clock.
\* Once an event has been accepted, a call of detect_events with a filter
\* output above the threshold is suppressed exactly when the true time since
\* the last accepted event, any time below 2^32 ms, is below
\* DEBOUNCE_TIME_MS, also when current_time has wrapped past last_event_time;
\* an accepted call stores its own current_time.
C25_DebounceAcrossWrap ==
    (since_event.n > 0 /\ since_event.had_event) =>
        /\ call.logged = 0 <=> TrulyInsideWindow
        /\ call.last_after =
              (IF TrulyInsideWindow THEN call.last_before ELSE call.time)
        /\ last_event_time = call.last_after

\* a call made after the clock wrapped past last_event_time, a true 2500 ms
\* after the last accepted event, was accepted
C25_Witness ==
    /\ since_event.had_event
    /\ WrappedPast
    /\ call.logged = 1
    /\ since_event.seen.hi = 0
    /\ since_event.seen.lo = 500 + DEBOUNCE_TIME_MS

\* the types classify_device_by_power returns over the powers tried
ReturnedTypes == {classify_device_by_power(p) : p \in ClassifyPowers}

\* indices of the device_table entries whose type is returned for no power
ShadowedEntries ==
    {i \in 1..DEVICE_TABLE_SIZE : device_table[i].type \notin ReturnedTypes}

\* C26 as claimed: every category declared in device_table is reachable.
\* For each table entry there is a power p for which
\* classify_device_by_power(p) returns that entry's type; no entry, the
\* Refrigerator entry [100,300] included, is completely shadowed by earlier
\* overlapping entries.
C26_EveryCategoryReachable ==
    device.called =>
        \A i \in 1..DEVICE_TABLE_SIZE :
            \E p \in ClassifyPowers \cup {power_arg} :
                classify_device_by_power(p) = device_table[i].type

\* what the table gives instead: the Refrigerator entry, declared last, is
\* the one entry never returned, every power of its range being taken by
\* the Light, Television or Computer entry declared before it
RefrigeratorShadowed ==
    /\ ShadowedEntries = {DEVICE_TABLE_SIZE}
    /\ device_table[DEVICE_TABLE_SIZE].type = "DEVICE_REFRIGERATOR"
    /\ device.called =>
          /\ device.type # "DEVICE_REFRIGERATOR"
          /\ DEVICE_TABLE_SIZE \in MatchingEntries =>
                device.type \in {"DEVICE_LIGHT", "DEVICE_TV", "DEVICE_COMPUTER"}

=============================================================================
